---------------------------- MODULE Spec2Model ----------------------------
(***************************************************************************)
(* Country Trivia API: the refresh pipeline (fetch, reconcile, persist,    *)
(* metadata, summary image), the reconciler it calls and the store it      *)
(* writes, as a state machine.                                             *)
(*                                                                         *)
(* JavaScript and SQL values are tagged records, so that null, undefined,  *)
(* numbers and strings can be told apart and compared.  Decimal numbers    *)
(* (exchange rates, multipliers, estimated GDP) are fixed-point, counted   *)
(* in hundredths; populations and counts are plain integers.               *)
(***************************************************************************)
EXTENDS Integers, Sequences, FiniteSets, TLC

VARIABLES
    rawIn,      \* reconciler harness: the raw country list handed in
    ratesIn,    \* reconciler harness: the exchange-rate table handed in
    out,        \* reconciler harness: what processCountryData gave back
    countries,          \* table countries: the committed rows
    refresh_metadata,   \* table refresh_metadata: its single row (id = 1)
    clock,              \* NOW()
    pending,            \* per refresh: rows its open transaction has written
    checkedOut,         \* connections taken from the pool and not released
    imageFile,          \* cache/summary.png: what the last rendering drew
    pc,                 \* per refresh: the await it is suspended at
    processedCountries, \* per refresh: the reconciled batch
    written,            \* per refresh: rows of the batch written so far
    count,              \* per refresh: what bulkUpsertCountries returned
    totalCountries,     \* per refresh: the total read by SELECT COUNT(*)
    metadata,           \* per refresh: what getRefreshMetadata returned
    topCountries,       \* per refresh: what getTopCountriesByGDP returned
    error,              \* per refresh: the error handed to next(error)
    response,           \* per refresh: the HTTP response sent
    invoked,            \* per refresh: the service functions it has called
    fetchRejected,      \* per refresh: one of its two fetches rejected
    before,             \* per refresh: countries and metadata when it was called
    interleaved,        \* per refresh: another request changed the store meanwhile
    deleted,            \* DELETE requests served so far
    fetched,            \* per refresh: the data its two fetches answered
    lastData,           \* the data of the last refresh answered 200, rows unchanged since
    reply,              \* the response to the last GET or DELETE request
    reads               \* GET requests served so far

rvars == <<rawIn, ratesIn, out>>

dbvars == <<countries, refresh_metadata, clock, pending, checkedOut, imageFile>>

reqvars == <<pc, processedCountries, written, count, totalCountries, metadata, topCountries,
             error, response, invoked, fetchRejected, before, interleaved, deleted,
             fetched, lastData>>

\* The requests that are not refreshes.
qvars == <<reply, reads>>

pvars == <<dbvars, reqvars, qvars>>

vars == <<rvars, pvars>>

---------------------------------------------------------------------------
(* JavaScript values *)

Undefined == [t |-> "undefined"]
Null      == [t |-> "null"]
Num(n)    == [t |-> "number", v |-> n]
Str(s)    == [t |-> "string", v |-> s]
Arr(s)    == [t |-> "array", v |-> s]

\* new Error(message): message is the list of the pieces it is built from.
Thrown(name, message) ==
    [t |-> "throw", name |-> name, message |-> message, statusCode |-> Undefined]

TypeError == Thrown("TypeError", <<"Cannot read properties of null (reading 'code')">>)

\* JavaScript truthiness: undefined, null, 0 and '' are falsy.
Truthy(x) ==
    CASE x.t = "undefined" -> FALSE
      [] x.t = "null"      -> FALSE
      [] x.t = "number"    -> x.v # 0
      [] x.t = "string"    -> x.v # ""
      [] OTHER             -> TRUE

\* a || b
OrElse(a, b) == IF Truthy(a) THEN a ELSE b

\* A currency descriptor of the countries API: { code: ... }.
Currency(code) == [t |-> "object", code |-> code]

\* Hundredths per unit: toFixed(2) keeps two decimals.
Hundredths == 100

\* Integer quotient rounded to nearest, halves up (a >= 0, b > 0).
RoundDiv(a, b) == (2 * a + b) \div (2 * b)

---------------------------------------------------------------------------
(* services/dataProcessor.js *)

\* The first currency's code, or null.  Reading .code of a first entry that
\* is null or undefined throws a TypeError.
extractCurrencyCode(currencies) ==
    IF ~Truthy(currencies) \/ currencies.t # "array" \/ Len(currencies.v) = 0
    THEN Null
    ELSE LET firstCurrency == currencies.v[1]
         IN  IF firstCurrency.t \in {"null", "undefined"}
             THEN TypeError
             ELSE OrElse(firstCurrency.code, Null)

\* Math.random() * (2000 - 1000) + 1000 lies in [1000, 2000): the draws the
\* model takes, in hundredths, are the two ends (1000.00 and 1999.99).
generateRandomMultiplier == {100000, 199999}

\* population is an integer, exchangeRate and multiplier are in hundredths;
\* the result is in hundredths, rounded as toFixed(2) rounds.
calculateEstimatedGDP(population, exchangeRate, multiplier) ==
    IF ~Truthy(population) \/ ~Truthy(exchangeRate)
    THEN Null
    ELSE Num(RoundDiv(population.v * multiplier * Hundredths, exchangeRate.v))

\* exchangeRates[currencyCode]: undefined for a key the table lacks.
Lookup(exchangeRates, code) ==
    IF code.v \in DOMAIN exchangeRates THEN exchangeRates[code.v] ELSE Undefined

\* ProcessOne with the no-currency branch sending the GDP through the
\* same null as the unknown-currency branch.
ProcessOne_NoCodeNullGdp(country, exchangeRates, multiplier) ==
    LET currencyCode == extractCurrencyCode(country.currencies)
    IN  IF currencyCode.t = "throw" THEN currencyCode
        ELSE
        LET found == Truthy(currencyCode) /\ Truthy(Lookup(exchangeRates, currencyCode))
            exchangeRate == IF found THEN Lookup(exchangeRates, currencyCode) ELSE Null
            estimatedGdp ==
                IF found
                THEN calculateEstimatedGDP(country.population, exchangeRate, multiplier)
                ELSE Null
        IN  [ t             |-> "object",
              name          |-> OrElse(country.name, Str("")),
              capital       |-> OrElse(country.capital, Null),
              region        |-> OrElse(country.region, Null),
              population    |-> OrElse(country.population, Num(0)),
              currency_code |-> currencyCode,
              exchange_rate |-> exchangeRate,
              estimated_gdp |-> estimatedGdp,
              flag_url      |-> OrElse(country.flag, Null) ]

\* The callback of countries.map for one country, multiplier the draw that
\* calculateEstimatedGDP would take.
ProcessOne(country, exchangeRates, multiplier) ==
    LET currencyCode == extractCurrencyCode(country.currencies)
    IN  IF currencyCode.t = "throw" THEN currencyCode
        ELSE
        LET found == Truthy(currencyCode) /\ Truthy(Lookup(exchangeRates, currencyCode))
            exchangeRate == IF found THEN Lookup(exchangeRates, currencyCode) ELSE Null
            estimatedGdp ==
                IF found
                THEN calculateEstimatedGDP(country.population, exchangeRate, multiplier)
                ELSE IF Truthy(currencyCode) THEN Null ELSE Num(0)
        IN  [ t             |-> "object",
              name          |-> OrElse(country.name, Str("")),
              capital       |-> OrElse(country.capital, Null),
              region        |-> OrElse(country.region, Null),
              population    |-> OrElse(country.population, Num(0)),
              currency_code |-> currencyCode,
              exchange_rate |-> exchangeRate,
              estimated_gdp |-> estimatedGdp,
              flag_url      |-> OrElse(country.flag, Null) ]

\* list.map(...), list being the countries argument: one record per
\* country, in order; a callback that throws ends the map and
\* processCountryData throws.  ms[i] is the draw for the i-th country.
processCountryData(list, exchangeRates, ms) ==
    LET each == [i \in 1..Len(list) |->
                    ProcessOne(list[i], exchangeRates, ms[i])]
    IN  IF \E i \in 1..Len(list) : each[i].t = "throw"
        THEN TypeError
        ELSE Arr(each)

---------------------------------------------------------------------------
(* Inputs of the reconciler taken alone *)

\* Longest raw country list handed to the reconciler harness.
MaxLen == 2

CurrencyCodes == {"NGN", "XXX"}

\* What country.currencies can be: absent, not an array, empty, a first
\* entry that is null, a first entry without a code, one code, two codes.
CurrenciesValues ==
    { Undefined, Str("NGN"), Arr(<<>>), Arr(<<Null>>),
      Arr(<<Currency(Undefined)>>),
      Arr(<<Currency(Str("NGN")), Currency(Str("XXX"))>>) }
    \cup { Arr(<<Currency(Str(c))>>) : c \in CurrencyCodes }

PopulationValues == {Undefined, Num(0), Num(3)}

\* A raw country: the optional strings all present or all absent.
RawCountries ==
    { [ name |-> o[1], capital |-> o[2], region |-> o[3], flag |-> o[4],
        population |-> p, currencies |-> c ] :
        o \in { <<Str("Nigeria"), Str("Abuja"), Str("Africa"), Str("ng.svg")>>,
                <<Undefined, Undefined, Undefined, Undefined>> },
        p \in PopulationValues, c \in CurrenciesValues }

\* Rate tables: NGN at 1600.23, NGN at 0.50, and a table without NGN.
RateTables ==
    { [c \in {"NGN"} |-> Num(160023)], [c \in {"NGN"} |-> Num(50)],
      [c \in {"USD"} |-> Num(100)] }

SeqsUpTo(S, n) == UNION { [1..k -> S] : k \in 0..n }

NotRun == [t |-> "notrun"]

---------------------------------------------------------------------------
(* Errors and the error-handling middleware *)

\* message.includes(piece)
Includes(message, piece) == \E i \in 1..Len(message) : message[i] = piece

\* errorHandler(err, req, res, next): the status and JSON body it sends.
errorHandler(err) ==
    IF Truthy(err.statusCode)
    THEN [status |-> err.statusCode.v, body |-> [error |-> err.message]]
    ELSE IF err.name = "ValidationError"
    THEN [status |-> 400, body |-> [error |-> <<"Validation failed">>]]
    ELSE IF Includes(err.message, "Could not fetch data from ")
    THEN [status |-> 503,
          body |-> [error |-> <<"External data source unavailable">>,
                    details |-> err.message]]
    ELSE [status |-> 500, body |-> [error |-> <<"Internal server error">>]]

\* new AppError(message, statusCode), details left null.
AppError(message, statusCode) ==
    [t |-> "throw", name |-> "Error", message |-> <<message>>,
     statusCode |-> Num(statusCode)]

---------------------------------------------------------------------------
(* middleware/validator.js *)

\* s.trim(), on the strings a request carries here.
Trim(s) ==
    CASE s = " "       -> ""
      [] s = " Africa" -> "Africa"
      [] OTHER         -> s

\* s.toUpperCase(), on the strings a request carries here.
ToUpperCase(s) ==
    CASE s = "ngn" -> "NGN"
      [] s = "usd" -> "USD"
      [] OTHER     -> s

validSorts ==
    {"gdp_desc", "gdp_asc", "population_desc", "population_asc", "name_asc", "name_desc"}

\* validateQueryParams(query): a parameter it does not set is undefined.
validateQueryParams(query) ==
    [ region   |-> IF Truthy(query.region)
                   THEN Str(Trim(query.region.v)) ELSE Undefined,
      currency |-> IF Truthy(query.currency)
                   THEN Str(ToUpperCase(Trim(query.currency.v))) ELSE Undefined,
      sort     |-> IF Truthy(query.sort) /\ query.sort.v \in validSorts
                   THEN query.sort ELSE Undefined ]

---------------------------------------------------------------------------
(* services/externalApi.js *)

Value(v) == [t |-> "value", v |-> v]

\* What axios.get can do: answer with data, time out after 30 s
\* (ECONNABORTED), or fail otherwise.
AxiosOk(data) == [ok |-> TRUE, data |-> data]
AxiosTimeout  == [ok |-> FALSE, code |-> "ECONNABORTED", message |-> "timeout of 30000ms exceeded"]
AxiosFailed   == [ok |-> FALSE, code |-> "ENOTFOUND", message |-> "getaddrinfo ENOTFOUND"]

fetchCountries(res) ==
    IF res.ok THEN Value(res.data)
    ELSE IF res.code = "ECONNABORTED"
    THEN Thrown("Error", <<"Countries API request timed out">>)
    ELSE Thrown("Error", <<"Could not fetch data from ", "Countries API", res.message>>)

\* data.rates is Undefined when the answer has no rates: the error thrown
\* for it inside the try is caught by the same catch and wrapped.
fetchExchangeRates(res) ==
    IF res.ok /\ res.data.rates # Undefined THEN Value(res.data.rates)
    ELSE IF res.ok
    THEN Thrown("Error", <<"Could not fetch data from ", "Exchange Rate API",
                           "Invalid response format from Exchange Rate API">>)
    ELSE IF res.code = "ECONNABORTED"
    THEN Thrown("Error", <<"Exchange Rate API request timed out">>)
    ELSE Thrown("Error", <<"Could not fetch data from ", "Exchange Rate API", res.message>>)

\* Promise.all([c, r]) ignoring a rejected second promise (an empty rate
\* table stands in for it).
PromiseAll_IgnoresRates(c, r) ==
    IF c.t = "value"
    THEN { Value(<<c.v, IF r.t = "value" THEN r.v ELSE [x \in {} |-> Undefined]>>) }
    ELSE { c }

\* Promise.all([c, r]): both values, or the rejection of whichever promise
\* rejected first.  The set of outcomes it can settle to.
PromiseAll(c, r) ==
    IF c.t = "value" /\ r.t = "value"
    THEN { Value(<<c.v, r.v>>) }
    ELSE { x \in {c, r} : x.t = "throw" }

---------------------------------------------------------------------------
(* config/database.js, services/countryService.js: the store *)

\* Names compared as they are written, as under a binary collation.
Lower_CaseSensitive(s) == s

\* LOWER(name); the unique index on name compares the same way under the
\* table's collation utf8mb4_unicode_ci.
Lower(s) ==
    CASE s = "Nigeria"  -> "nigeria"
      [] s = "NIGERIA"  -> "nigeria"
      [] s = "Atlantis" -> "atlantis"
      [] s = "Benin"    -> "benin"
      [] s = "Chad"     -> "chad"
      [] s = "Fiji"     -> "fiji"
      [] s = "Ghana"    -> "ghana"
      [] s = "Kenya"    -> "kenya"
      [] s = "Mali"     -> "mali"
      [] s = "Peru"     -> "peru"
      [] s = "Africa"   -> "africa"
      [] s = "Oceania"  -> "oceania"
      [] s = "NGN"      -> "ngn"
      [] s = "USD"      -> "usd"
      [] s = "XXX"      -> "xxx"
      [] OTHER          -> s

Key(row) == Lower(row.name.v)

Keys(rows) == { Key(r) : r \in rows }

\* The INSERT on a table without the unique index on name: a row is added
\* whatever the table holds.
UpsertRow_AlwaysInserts(rows, country, now) ==
    rows \cup { [ name              |-> country.name,
                  capital           |-> country.capital,
                  region            |-> country.region,
                  population        |-> country.population,
                  currency_code     |-> country.currency_code,
                  exchange_rate     |-> country.exchange_rate,
                  estimated_gdp     |-> country.estimated_gdp,
                  flag_url          |-> country.flag_url,
                  last_refreshed_at |-> now,
                  created_at        |-> now ] }

\* INSERT ... ON DUPLICATE KEY UPDATE of one reconciled country at time now:
\* a row with the same name (by the unique index) keeps its name and
\* created_at and has the other columns overwritten; otherwise a row is added.
UpsertRow(rows, country, now) ==
    IF Key(country) \in Keys(rows)
    THEN { IF Key(r) = Key(country)
           THEN [r EXCEPT !.capital = country.capital,
                          !.region = country.region,
                          !.population = country.population,
                          !.currency_code = country.currency_code,
                          !.exchange_rate = country.exchange_rate,
                          !.estimated_gdp = country.estimated_gdp,
                          !.flag_url = country.flag_url,
                          !.last_refreshed_at = now]
           ELSE r : r \in rows }
    ELSE rows \cup { [ name              |-> country.name,
                       capital           |-> country.capital,
                       region            |-> country.region,
                       population        |-> country.population,
                       currency_code     |-> country.currency_code,
                       exchange_rate     |-> country.exchange_rate,
                       estimated_gdp     |-> country.estimated_gdp,
                       flag_url          |-> country.flag_url,
                       last_refreshed_at |-> now,
                       created_at        |-> now ] }

\* The rows a transaction reads: the committed ones, with its own written
\* versions in place of theirs.
TxView(committed, pend) ==
    { r \in committed : Key(r) \notin Keys(pend) } \cup pend

\* The upsert sent through pool.query, as upsertCountry does: it runs on an
\* autocommit connection and is committed at once.
PoolQuery(committed, pend, country, now) ==
    [committed |-> UpsertRow(committed, country, now), pending |-> pend]

\* The upsert sent through connection.query inside the transaction: the
\* committed rows stay as they are and the written version is pending.
ConnQuery(committed, pend, country, now) ==
    LET view == UpsertRow(TxView(committed, pend), country, now)
    IN  [committed |-> committed,
         pending   |-> { r \in view : Key(r) \in Keys(pend) \cup {Key(country)} }]

\* A commit after which the table holds the batch only.
Commit_ReplacesTable(committed, pend) == pend

\* connection.commit(): the pending versions become the committed ones.
Commit(committed, pend) == TxView(committed, pend)

\* A rollback that keeps what the transaction wrote.
Rollback_Commits(committed, pend) == TxView(committed, pend)

\* connection.rollback(): the pending versions are dropped.
Rollback(committed, pend) == committed

\* SELECT COUNT(*) as total FROM countries, beside the size of the batch
\* just upserted.
TotalCountries_BatchSize(rows, batchSize) == batchSize

TotalCountries(rows, batchSize) == Cardinality(rows)

\* getRefreshMetadata(): the single row of refresh_metadata.
getRefreshMetadata(meta) ==
    [total_countries |-> meta.total_countries,
     last_refreshed_at |-> meta.last_refreshed_at]

\* The names in the order the collation puts them in, by their key.
CollationOrder ==
    <<"", "atlantis", "benin", "chad", "fiji", "ghana", "kenya", "mali", "nigeria", "peru">>

\* What ORDER BY column compares: a NULL comes before every value, names
\* compare as the collation orders them.
SortKey(row, column) ==
    CASE column = "estimated_gdp" ->
             IF row.estimated_gdp = Null THEN -1 ELSE row.estimated_gdp.v
      [] column = "population" -> row.population.v
      [] column = "name" ->
             CHOOSE i \in 1..Len(CollationOrder) : CollationOrder[i] = Key(row)
      [] OTHER -> 0

\* ORDER BY column ASC or DESC: the orders the rows can come back in, rows
\* that compare equal in either order.
RECURSIVE OrderBy(_, _, _)
OrderBy(rows, column, descending) ==
    IF rows = {} THEN { <<>> }
    ELSE LET first == { r \in rows : \A o \in rows :
                          IF descending
                          THEN SortKey(o, column) <= SortKey(r, column)
                          ELSE SortKey(r, column) <= SortKey(o, column) }
         IN  UNION { { <<r>> \o rest : rest \in OrderBy(rows \ {r}, column, descending) } :
                     r \in first }

Min(a, b) == IF a <= b THEN a ELSE b

\* getTopCountriesByGDP without its WHERE clause.
getTopCountriesByGDP_IncludesNull(rows, limit) ==
    { [i \in 1..Min(limit, Len(s)) |->
          [name |-> s[i].name, estimated_gdp |-> s[i].estimated_gdp,
           flag_url |-> s[i].flag_url]] :
      s \in OrderBy(rows, "estimated_gdp", TRUE) }

\* getTopCountriesByGDP(limit): name, estimated_gdp, flag_url of the rows
\* whose estimated_gdp is not NULL, by estimated_gdp descending, the first
\* limit of them.  Rows of equal GDP come in either order: the set of lists
\* the query can return.
getTopCountriesByGDP(rows, limit) ==
    LET nonNull == { r \in rows : r.estimated_gdp # Null }
    IN  { [i \in 1..Min(limit, Len(s)) |->
              [name |-> s[i].name, estimated_gdp |-> s[i].estimated_gdp,
               flag_url |-> s[i].flag_url]] :
          s \in OrderBy(nonNull, "estimated_gdp", TRUE) }

\* A DECIMAL column as mysql2 hands it over: a string of digits, here the
\* number it spells.
Dec(n) == [t |-> "decimal", v |-> n]

\* A row as a SELECT * returns it: the DECIMAL columns as strings.  The id
\* column, which no operation reads, is left out.
AsReturned(r) ==
    [r EXCEPT !.exchange_rate = IF @ = Null THEN Null ELSE Dec(@.v),
              !.estimated_gdp = IF @ = Null THEN Null ELSE Dec(@.v)]

parseFloat(d) == Num(d.v)

\* formatCountryResponse(row)
formatCountryResponse(row) ==
    [ t                 |-> "object",
      name              |-> row.name,
      capital           |-> row.capital,
      region            |-> row.region,
      population        |-> row.population,
      currency_code     |-> row.currency_code,
      exchange_rate     |-> IF Truthy(row.exchange_rate)
                            THEN parseFloat(row.exchange_rate) ELSE Null,
      estimated_gdp     |-> IF Truthy(row.estimated_gdp)
                            THEN parseFloat(row.estimated_gdp)
                            ELSE IF row.estimated_gdp = Num(0) THEN Num(0) ELSE Null,
      flag_url          |-> row.flag_url,
      last_refreshed_at |-> row.last_refreshed_at ]

\* getCountryByName with the name compared as it is written.
getCountryByName_CaseSensitive(rows, name) ==
    LET hit == { r \in rows : r.name.v = name }
    IN  IF hit = {} THEN { Null }
        ELSE { formatCountryResponse(AsReturned(r)) : r \in hit }

\* getCountryByName(name): SELECT * ... WHERE LOWER(name) = LOWER(?) LIMIT 1,
\* null for no row.  The set of what it can return.
getCountryByName(rows, name) ==
    LET hit == { r \in rows : Lower(r.name.v) = Lower(name) }
    IN  IF hit = {} THEN { Null }
        ELSE { formatCountryResponse(AsReturned(r)) : r \in hit }

\* deleteCountryByName with the name compared as it is written.
deleteCountryByName_CaseSensitive(rows, name) ==
    LET hit == { r \in rows : r.name.v = name }
    IN  [rows |-> rows \ hit, result |-> Cardinality(hit) > 0]

\* deleteCountryByName(name): DELETE ... WHERE LOWER(name) = LOWER(?), true
\* when a row was affected.  The rows left and the value returned.
deleteCountryByName(rows, name) ==
    LET hit == { r \in rows : Lower(r.name.v) = Lower(name) }
    IN  [rows |-> rows \ hit, result |-> Cardinality(hit) > 0]

\* The ORDER BY clause with the two GDP branches taken for each other.
OrderClause_GdpSwapped(sort) ==
    CASE sort = Str("gdp_desc")        -> [column |-> "estimated_gdp", descending |-> FALSE]
      [] sort = Str("gdp_asc")         -> [column |-> "estimated_gdp", descending |-> TRUE]
      [] sort = Str("population_desc") -> [column |-> "population", descending |-> TRUE]
      [] sort = Str("population_asc")  -> [column |-> "population", descending |-> FALSE]
      [] sort = Str("name_asc")        -> [column |-> "name", descending |-> FALSE]
      [] sort = Str("name_desc")       -> [column |-> "name", descending |-> TRUE]
      [] OTHER                         -> [column |-> "name", descending |-> FALSE]

\* The ORDER BY clause without the final else: no clause, rows in any order.
OrderClause_NoDefault(sort) ==
    CASE sort = Str("gdp_desc")        -> [column |-> "estimated_gdp", descending |-> TRUE]
      [] sort = Str("gdp_asc")         -> [column |-> "estimated_gdp", descending |-> FALSE]
      [] sort = Str("population_desc") -> [column |-> "population", descending |-> TRUE]
      [] sort = Str("population_asc")  -> [column |-> "population", descending |-> FALSE]
      [] sort = Str("name_asc")        -> [column |-> "name", descending |-> FALSE]
      [] sort = Str("name_desc")       -> [column |-> "name", descending |-> TRUE]
      [] OTHER                         -> [column |-> "none", descending |-> FALSE]

\* getAllCountries: the if / else if chain that picks the ORDER BY clause.
OrderClause(sort) ==
    CASE sort = Str("gdp_desc")        -> [column |-> "estimated_gdp", descending |-> TRUE]
      [] sort = Str("gdp_asc")         -> [column |-> "estimated_gdp", descending |-> FALSE]
      [] sort = Str("population_desc") -> [column |-> "population", descending |-> TRUE]
      [] sort = Str("population_asc")  -> [column |-> "population", descending |-> FALSE]
      [] sort = Str("name_asc")        -> [column |-> "name", descending |-> FALSE]
      [] sort = Str("name_desc")       -> [column |-> "name", descending |-> TRUE]
      [] OTHER                         -> [column |-> "name", descending |-> FALSE]

\* column = ? under the table's collation; a NULL column equals nothing.
ColumnIs(value, wanted) == value # Null /\ Lower(value.v) = Lower(wanted.v)

\* getAllCountries(filters, sort): the rows the filters keep, in the order
\* the clause gives, each formatted.  The set of lists it can return.
getAllCountries(rows, filters, sort) ==
    LET selected ==
            { r \in rows :
                /\ Truthy(filters.region) => ColumnIs(r.region, filters.region)
                /\ Truthy(filters.currency) => ColumnIs(r.currency_code, filters.currency) }
        clause == OrderClause(sort)
    IN  { [i \in 1..Len(s) |-> formatCountryResponse(AsReturned(s[i]))] :
          s \in OrderBy(selected, clause.column, clause.descending) }

---------------------------------------------------------------------------
(* What the two external APIs answer in the pipeline *)

Nigeria ==
    [ name |-> Str("Nigeria"), capital |-> Str("Abuja"), region |-> Str("Africa"),
      population |-> Num(3), currencies |-> Arr(<<Currency(Str("NGN"))>>),
      flag |-> Str("ng.svg") ]

\* The same country under another spelling of its name, unpopulated.
NigeriaUpper == [Nigeria EXCEPT !.name = Str("NIGERIA"), !.population = Num(0)]

Atlantis ==
    [ name |-> Str("Atlantis"), capital |-> Undefined, region |-> Undefined,
      population |-> Num(3), currencies |-> Arr(<<>>), flag |-> Undefined ]

CountriesResponses == { <<Nigeria, Atlantis>>, <<NigeriaUpper>> }

RatesResponses == { [rates |-> [c \in {"NGN"} |-> Num(50)]], [rates |-> Undefined] }

CountriesAnswers == { AxiosOk(d) : d \in CountriesResponses } \cup {AxiosTimeout, AxiosFailed}

RatesAnswers == { AxiosOk(d) : d \in RatesResponses } \cup {AxiosTimeout, AxiosFailed}

\* The name asked for in DELETE /countries/:name.
DeleteNames == {"nigeria"}

---------------------------------------------------------------------------
(* controllers/countryController.js: POST /countries/refresh, one step per  *)
(* await, and DELETE /countries/:name                                      *)

\* The clock stops at MaxClock; every POST /countries/refresh arrives at a
\* later time than the one before it, so a behaviour holds MaxClock of them.
MaxClock == 2

\* DELETE /countries/:name requests in a behaviour.
MaxDeletes == 1

\* Express serves requests as they come: two refreshes can be in flight at
\* once, each in its own invocation of the handler.
Requests == {1, 2}

NoError == [t |-> "none"]

NoResponse == [status |-> 0]

\* createTables(): countries empty, refresh_metadata holding its one row.
InitialMetadata == [total_countries |-> 0, last_refreshed_at |-> 0]

NoData == [t |-> "none"]

NoSnapshot == [countries |-> {}, refresh_metadata |-> InitialMetadata, data |-> NoData]

NoReply == [handler |-> "none"]

NoImage == [t |-> "none"]

PInit ==
    /\ countries = {}
    /\ refresh_metadata = InitialMetadata
    /\ clock = 0
    /\ pending = [p \in Requests |-> {}]
    /\ checkedOut = 0
    /\ imageFile = NoImage
    /\ pc = [p \in Requests |-> "idle"]
    /\ processedCountries = [p \in Requests |-> <<>>]
    /\ written = [p \in Requests |-> 0]
    /\ count = [p \in Requests |-> 0]
    /\ totalCountries = [p \in Requests |-> 0]
    /\ metadata = [p \in Requests |-> InitialMetadata]
    /\ topCountries = [p \in Requests |-> <<>>]
    /\ error = [p \in Requests |-> NoError]
    /\ response = [p \in Requests |-> NoResponse]
    /\ invoked = [p \in Requests |-> {}]
    /\ fetchRejected = [p \in Requests |-> FALSE]
    /\ before = [p \in Requests |-> NoSnapshot]
    /\ interleaved = [p \in Requests |-> FALSE]
    /\ deleted = 0
    /\ fetched = [p \in Requests |-> NoData]
    /\ lastData = NoData
    /\ reply = NoReply
    /\ reads = 0

\* Bookkeeping for the properties: request p has just changed the store
\* (rows or metadata) to newRows, newMeta; every other request that has
\* been received notes that it did not run alone.
Disturbs(p, newRows, newMeta) ==
    LET changed == newRows # countries \/ newMeta # refresh_metadata
        hit(q) == changed /\ q # p /\ pc[q] # "idle"
    IN  /\ interleaved' = [q \in Requests |-> interleaved[q] \/ hit(q)]
        /\ before' = [q \in Requests |-> IF hit(q) THEN NoSnapshot ELSE before[q]]

\* The handler returns: its locals are gone.
Returns(p) ==
    /\ pc' = [pc EXCEPT ![p] = "done"]
    /\ processedCountries' = [processedCountries EXCEPT ![p] = <<>>]
    /\ count' = [count EXCEPT ![p] = 0]
    /\ totalCountries' = [totalCountries EXCEPT ![p] = 0]
    /\ metadata' = [metadata EXCEPT ![p] = InitialMetadata]
    /\ topCountries' = [topCountries EXCEPT ![p] = <<>>]
    /\ fetched' = [fetched EXCEPT ![p] = NoData]

\* catch (error) { next(error) }: the error handler answers.
Fails(p, err) ==
    /\ error' = [error EXCEPT ![p] = err]
    /\ response' = [response EXCEPT ![p] = errorHandler(err)]
    /\ Returns(p)

\* A request arrives, time having passed since the one before it, and
\* refreshCountries(req, res, next) starts in an invocation not in flight.
RefreshCalled(p) ==
    /\ pc[p] \in {"idle", "done"}
    /\ \A q \in Requests : q < p => pc[q] \notin {"idle", "done"}
    /\ clock < MaxClock
    /\ clock' = clock + 1
    /\ pc' = [pc EXCEPT ![p] = "fetching"]
    /\ processedCountries' = [processedCountries EXCEPT ![p] = <<>>]
    /\ written' = [written EXCEPT ![p] = 0]
    /\ count' = [count EXCEPT ![p] = 0]
    /\ totalCountries' = [totalCountries EXCEPT ![p] = 0]
    /\ metadata' = [metadata EXCEPT ![p] = InitialMetadata]
    /\ topCountries' = [topCountries EXCEPT ![p] = <<>>]
    /\ error' = [error EXCEPT ![p] = NoError]
    /\ response' = [response EXCEPT ![p] = NoResponse]
    /\ invoked' = [invoked EXCEPT ![p] = {}]
    /\ fetchRejected' = [fetchRejected EXCEPT ![p] = FALSE]
    /\ before' = [before EXCEPT ![p] =
                     [countries |-> countries, refresh_metadata |-> refresh_metadata,
                      data |-> lastData]]
    /\ interleaved' = [interleaved EXCEPT ![p] = FALSE]
    /\ fetched' = [fetched EXCEPT ![p] = NoData]
    /\ UNCHANGED <<rvars, countries, refresh_metadata, pending, checkedOut, imageFile,
                   deleted, lastData, qvars>>

\* await Promise.all([fetchCountries(), fetchExchangeRates()]) settles; on
\* values, processCountryData runs and bulkUpsertCountries is called.
FetchSettled(p) ==
    /\ pc[p] = "fetching"
    /\ \E cres \in CountriesAnswers, rres \in RatesAnswers :
       LET c == fetchCountries(cres)
           r == fetchExchangeRates(rres)
       IN  /\ fetchRejected' = [fetchRejected EXCEPT ![p] = c.t = "throw" \/ r.t = "throw"]
           /\ \E settled \in PromiseAll(c, r) :
                 IF settled.t = "throw"
                 THEN /\ Fails(p, settled)
                      /\ UNCHANGED invoked
                 ELSE \E ms \in [1..Len(settled.v[1]) -> generateRandomMultiplier] :
                      LET processed == processCountryData(settled.v[1], settled.v[2], ms)
                      IN  IF processed.t = "throw"
                          THEN /\ Fails(p, processed)
                               /\ UNCHANGED invoked
                          ELSE /\ processedCountries' =
                                      [processedCountries EXCEPT ![p] = processed.v]
                               /\ invoked' =
                                      [invoked EXCEPT ![p] = @ \cup {"bulkUpsertCountries"}]
                               /\ pc' = [pc EXCEPT ![p] = "connect"]
                               /\ fetched' = [fetched EXCEPT ![p] =
                                                 [countries |-> settled.v[1],
                                                  rates |-> settled.v[2]]]
                               /\ UNCHANGED <<error, response, count, totalCountries,
                                              metadata, topCountries>>
    /\ UNCHANGED <<rvars, dbvars, written, before, interleaved, deleted, lastData, qvars>>

\* const connection = await pool.getConnection();
\* await connection.beginTransaction()
BeginTransaction(p) ==
    /\ pc[p] = "connect"
    /\ checkedOut' = checkedOut + 1
    /\ pc' = [pc EXCEPT ![p] = "rows"]
    /\ UNCHANGED <<rvars, countries, refresh_metadata, clock, pending, imageFile,
                   processedCountries, written, count, totalCountries, metadata,
                   topCountries, error, response, invoked, before, interleaved, deleted,
                   fetchRejected, fetched, lastData, qvars>>

\* Keys whose rows another open transaction has written: a statement that
\* touches one waits for that transaction to end.
LockedByOthers(p) == UNION { Keys(pending[q]) : q \in Requests \ {p} }

\* One turn of the for loop: await connection.query(INSERT ... ) of the
\* next country of the batch.
WriteRow(p) ==
    /\ pc[p] = "rows"
    /\ written[p] < Len(processedCountries[p])
    /\ LET country == processedCountries[p][written[p] + 1]
           res == ConnQuery(countries, pending[p], country, clock)
       IN  /\ Key(country) \notin LockedByOthers(p)
           /\ countries' = res.committed
           /\ pending' = [pending EXCEPT ![p] = res.pending]
           /\ Disturbs(p, res.committed, refresh_metadata)
    /\ written' = [written EXCEPT ![p] = @ + 1]
    /\ UNCHANGED <<rvars, refresh_metadata, clock, checkedOut, imageFile, pc,
                   processedCountries, count, totalCountries, metadata, topCountries,
                   error, response, invoked, deleted, fetchRejected, fetched, lastData,
                   qvars>>

\* await connection.commit(), return countries.length, finally release.
CommitTransaction(p) ==
    /\ pc[p] = "rows"
    /\ written[p] = Len(processedCountries[p])
    /\ countries' = Commit(countries, pending[p])
    /\ Disturbs(p, Commit(countries, pending[p]), refresh_metadata)
    /\ pending' = [pending EXCEPT ![p] = {}]
    /\ checkedOut' = checkedOut - 1
    /\ count' = [count EXCEPT ![p] = Len(processedCountries[p])]
    /\ pc' = [pc EXCEPT ![p] = "count"]
    /\ lastData' = NoData
    /\ UNCHANGED <<rvars, refresh_metadata, clock, imageFile, processedCountries, written,
                   totalCountries, metadata, topCountries, error, response, invoked,
                   deleted, fetchRejected, fetched, qvars>>

DatabaseError == Thrown("Error", <<"ER_LOCK_DEADLOCK">>)

\* The failure path without the finally block: rolled back, not released.
TransactionFails_NoRelease(p) ==
    /\ pc[p] = "rows"
    /\ countries' = Rollback(countries, pending[p])
    /\ Disturbs(p, Rollback(countries, pending[p]), refresh_metadata)
    /\ pending' = [pending EXCEPT ![p] = {}]
    /\ Fails(p, DatabaseError)
    /\ UNCHANGED <<rvars, refresh_metadata, clock, checkedOut, imageFile, written, invoked,
                   deleted, fetchRejected, lastData, qvars>>

\* The awaited statement of the loop rejects (the next row's query, or
\* commit after the last row): catch rolls back and rethrows, finally
\* releases.
TransactionFails(p) ==
    /\ pc[p] = "rows"
    /\ countries' = Rollback(countries, pending[p])
    /\ Disturbs(p, Rollback(countries, pending[p]), refresh_metadata)
    /\ pending' = [pending EXCEPT ![p] = {}]
    /\ checkedOut' = checkedOut - 1
    /\ Fails(p, DatabaseError)
    /\ UNCHANGED <<rvars, refresh_metadata, clock, imageFile, written, invoked, deleted,
                   fetchRejected, lastData, qvars>>

\* updateRefreshMetadata(), first await: SELECT COUNT(*) FROM countries.
SelectCount(p) ==
    /\ pc[p] = "count"
    /\ invoked' = [invoked EXCEPT ![p] = @ \cup {"updateRefreshMetadata"}]
    /\ totalCountries' = [totalCountries EXCEPT ![p] = TotalCountries(countries, count[p])]
    /\ pc' = [pc EXCEPT ![p] = "update"]
    /\ UNCHANGED <<rvars, dbvars, processedCountries, written, count, metadata,
                   topCountries, error, response, before, interleaved, deleted,
                   fetchRejected, fetched, lastData, qvars>>

\* updateRefreshMetadata(), second await: UPDATE refresh_metadata ... WHERE id = 1.
UpdateMetadata(p) ==
    /\ pc[p] = "update"
    /\ LET meta == [total_countries |-> totalCountries[p], last_refreshed_at |-> clock]
       IN  /\ refresh_metadata' = meta
           /\ Disturbs(p, countries, meta)
    /\ pc' = [pc EXCEPT ![p] = "getmeta"]
    /\ UNCHANGED <<rvars, countries, clock, pending, checkedOut, imageFile,
                   processedCountries, written, count, totalCountries, metadata,
                   topCountries, error, response, invoked, deleted, fetchRejected,
                   fetched, lastData, qvars>>

\* const metadata = await getRefreshMetadata()
ReadMetadata(p) ==
    /\ pc[p] = "getmeta"
    /\ metadata' = [metadata EXCEPT ![p] = getRefreshMetadata(refresh_metadata)]
    /\ pc' = [pc EXCEPT ![p] = "gettop"]
    /\ UNCHANGED <<rvars, dbvars, processedCountries, written, count, totalCountries,
                   topCountries, error, response, invoked, before, interleaved, deleted,
                   fetchRejected, fetched, lastData, qvars>>

\* Rows getTopCountriesByGDP is asked for.
TopLimit == 5

\* const topCountries = await getTopCountriesByGDP(5)
ReadTop(p) ==
    /\ pc[p] = "gettop"
    /\ \E top \in getTopCountriesByGDP(countries, TopLimit) :
           topCountries' = [topCountries EXCEPT ![p] = top]
    /\ pc' = [pc EXCEPT ![p] = "image"]
    /\ UNCHANGED <<rvars, dbvars, processedCountries, written, count, totalCountries,
                   metadata, error, response, invoked, before, interleaved, deleted,
                   fetchRejected, fetched, lastData, qvars>>

\* await generateSummaryImage({...}) writes cache/summary.png, then
\* res.json({message, countries_processed, last_refreshed_at}).
ImageGenerated(p) ==
    /\ pc[p] = "image"
    /\ invoked' = [invoked EXCEPT ![p] = @ \cup {"generateSummaryImage"}]
    /\ imageFile' = [ t |-> "png",
                      total_countries |-> metadata[p].total_countries,
                      top_countries |-> topCountries[p],
                      last_refreshed_at |-> metadata[p].last_refreshed_at ]
    /\ response' = [response EXCEPT ![p] =
                       [ status |-> 200,
                         body |-> [ message |-> <<"Countries data refreshed successfully">>,
                                    countries_processed |-> count[p],
                                    last_refreshed_at |-> metadata[p].last_refreshed_at ] ]]
    /\ Returns(p)
    /\ lastData' = IF interleaved[p] THEN NoData ELSE fetched[p]
    /\ UNCHANGED <<rvars, countries, refresh_metadata, clock, pending, checkedOut, written,
                   error, before, interleaved, deleted, fetchRejected, qvars>>

ImageError == Thrown("Error", <<"EACCES: permission denied, mkdir 'cache'">>)

\* await generateSummaryImage({...}) rejects (the cache directory cannot be
\* made, sharp cannot write the file).
ImageFails(p) ==
    /\ pc[p] = "image"
    /\ invoked' = [invoked EXCEPT ![p] = @ \cup {"generateSummaryImage"}]
    /\ Fails(p, ImageError)
    /\ UNCHANGED <<rvars, dbvars, written, before, interleaved, deleted, fetchRejected,
                   lastData, qvars>>

\* What a handler other than the refresh answered: the request's argument,
\* whether the service function was called and what it returned, and the
\* response.
Answer(handler, arg, called, result, res) ==
    [handler |-> handler, arg |-> arg, called |-> called, result |-> result,
     status |-> res.status, body |-> res.body]

\* res.status(204).send()
NoContent == [status |-> 204, body |-> [t |-> "empty"]]

\* !name || name.trim() === ""
Blank(name) == name = "" \/ Trim(name) = ""

\* DELETE /countries/:name handled as deleteCountry does, but with
\* total_countries counted again after the DELETE.
DeleteCountry_UpdatesTotal(name) ==
    /\ deleted < MaxDeletes
    /\ deleted' = deleted + 1
    /\ IF Blank(name)
       THEN /\ reply' = Answer("deleteCountry", name, FALSE, Undefined,
                               errorHandler(AppError("Country name is required", 400)))
            /\ UNCHANGED <<countries, refresh_metadata, before, interleaved, lastData>>
       ELSE LET res == deleteCountryByName(countries, name)
                meta == [refresh_metadata EXCEPT !.total_countries = Cardinality(res.rows)]
            IN  /\ Lower(name) \notin LockedByOthers(0)
                /\ countries' = res.rows
                /\ refresh_metadata' = meta
                /\ Disturbs(0, res.rows, meta)
                /\ lastData' = IF res.rows # countries THEN NoData ELSE lastData
                /\ reply' = Answer("deleteCountry", name, TRUE, res.result,
                                   IF res.result THEN NoContent
                                   ELSE errorHandler(AppError("Country not found", 404)))
    /\ UNCHANGED <<rvars, clock, pending, checkedOut, imageFile, pc,
                   processedCountries, written, count, totalCountries, metadata,
                   topCountries, error, response, invoked, fetchRejected, fetched, reads>>

\* DELETE /countries/:name: deleteCountry(req, res, next).  The DELETE is
\* one autocommit statement; it waits for a transaction that holds the row.
DeleteCountry(name) ==
    /\ deleted < MaxDeletes
    /\ deleted' = deleted + 1
    /\ IF Blank(name)
       THEN /\ reply' = Answer("deleteCountry", name, FALSE, Undefined,
                               errorHandler(AppError("Country name is required", 400)))
            /\ UNCHANGED <<countries, before, interleaved, lastData>>
       ELSE LET res == deleteCountryByName(countries, name)
            IN  /\ Lower(name) \notin LockedByOthers(0)
                /\ countries' = res.rows
                /\ Disturbs(0, res.rows, refresh_metadata)
                /\ lastData' = IF res.rows # countries THEN NoData ELSE lastData
                /\ reply' = Answer("deleteCountry", name, TRUE, res.result,
                                   IF res.result THEN NoContent
                                   ELSE errorHandler(AppError("Country not found", 404)))
    /\ UNCHANGED <<rvars, refresh_metadata, clock, pending, checkedOut, imageFile, pc,
                   processedCountries, written, count, totalCountries, metadata,
                   topCountries, error, response, invoked, fetchRejected, fetched, reads>>

\* GET requests in a behaviour.
MaxReads == 1

\* GET /countries/:name: getCountry(req, res, next).
GetCountry(name) ==
    /\ reads < MaxReads
    /\ reads' = reads + 1
    /\ IF Blank(name)
       THEN reply' = Answer("getCountry", name, FALSE, Undefined,
                            errorHandler(AppError("Country name is required", 400)))
       ELSE \E country \in getCountryByName(countries, name) :
                reply' = Answer("getCountry", name, TRUE, country,
                                IF ~Truthy(country)
                                THEN errorHandler(AppError("Country not found", 404))
                                ELSE [status |-> 200, body |-> country])
    /\ UNCHANGED <<rvars, dbvars, reqvars>>

\* getCountries down to its await: the query validated, the filters built,
\* getAllCountries called.  The lists it can get for the query on the rows.
CountriesFor(rows, query) ==
    LET validatedParams == validateQueryParams(query)
        filters == [ region   |-> IF Truthy(validatedParams.region)
                                  THEN validatedParams.region ELSE Undefined,
                     currency |-> IF Truthy(validatedParams.currency)
                                  THEN validatedParams.currency ELSE Undefined ]
    IN  getAllCountries(rows, filters, validatedParams.sort)

\* GET /countries: getCountries(req, res, next).
GetCountries(query) ==
    /\ reads < MaxReads
    /\ reads' = reads + 1
    /\ \E list \in CountriesFor(countries, query) :
           reply' = Answer("getCountries", query, TRUE, list,
                           [status |-> 200, body |-> list])
    /\ UNCHANGED <<rvars, dbvars, reqvars>>

\* GET /status: getStatus(req, res, next).
GetStatus ==
    /\ reads < MaxReads
    /\ reads' = reads + 1
    /\ LET meta == getRefreshMetadata(refresh_metadata)
       IN  reply' = Answer("getStatus", Undefined, TRUE, meta,
                           [status |-> 200, body |-> meta])
    /\ UNCHANGED <<rvars, dbvars, reqvars>>

Init ==
    /\ rawIn = <<>>
    /\ ratesIn = [c \in {} |-> Undefined]
    /\ out = NotRun
    /\ PInit

Next ==
    \/ \E p \in Requests :
          \/ RefreshCalled(p)
          \/ FetchSettled(p)
          \/ BeginTransaction(p)
          \/ WriteRow(p)
          \/ CommitTransaction(p)
          \/ TransactionFails(p)
          \/ SelectCount(p)
          \/ UpdateMetadata(p)
          \/ ReadMetadata(p)
          \/ ReadTop(p)
          \/ ImageGenerated(p)
          \/ ImageFails(p)
    \/ \E name \in DeleteNames : DeleteCountry(name)

Spec == Init /\ [][Next]_vars

---------------------------------------------------------------------------
(* The reconciler alone: one call on each input *)

RInit ==
    /\ rawIn \in SeqsUpTo(RawCountries, MaxLen)
    /\ ratesIn \in RateTables
    /\ out = NotRun
    /\ PInit

\* One call of processCountryData(rawIn, ratesIn).
Reconcile ==
    /\ out = NotRun
    /\ \E ms \in [1..Len(rawIn) -> generateRandomMultiplier] :
           out' = processCountryData(rawIn, ratesIn, ms)
    /\ UNCHANGED <<rawIn, ratesIn, pvars>>

RNext == Reconcile

SpecReconcile == RInit /\ [][RNext]_vars

---------------------------------------------------------------------------
(* The store after a first refresh: the rest of that refresh, and the GET  *)
(* and DELETE requests that follow it                                      *)

\* A country of the countries API with a region and no capital or flag.
RawCountry(name, population, currencies) ==
    [ name |-> Str(name), capital |-> Undefined, region |-> Str("Africa"),
      population |-> Num(population), currencies |-> currencies, flag |-> Undefined ]

\* Eight countries: five with a rate, one with a code the table lacks, two
\* without a currency.
EightCountries ==
    << Nigeria, Atlantis,
       RawCountry("Ghana", 5, Arr(<<Currency(Str("NGN"))>>)),
       RawCountry("Benin", 6, Arr(<<Currency(Str("USD"))>>)),
       RawCountry("Chad", 1, Arr(<<Currency(Str("USD"))>>)),
       [RawCountry("Fiji", 2, Arr(<<Currency(Str("XXX"))>>)) EXCEPT !.region = Str("Oceania")],
       RawCountry("Kenya", 9, Arr(<<Currency(Str("USD"))>>)),
       RawCountry("Mali", 4, Arr(<<>>)) >>

StoreResponses == CountriesResponses \cup {EightCountries}

\* NGN at 0.50, USD at 1.00.
StoreRates == [c \in {"NGN", "USD"} |-> IF c = "NGN" THEN Num(50) ELSE Num(100)]

\* bulkUpsertCountries(batch) run to its commit with no other request in
\* between: the rows committed.
RECURSIVE BulkUpsert(_, _, _, _)
BulkUpsert(committed, pend, batch, now) ==
    IF batch = <<>>
    THEN Commit(committed, pend)
    ELSE BulkUpsert(committed, ConnQuery(committed, pend, Head(batch), now).pending,
                    Tail(batch), now)

\* The state in which the first refresh, of list and StoreRates with the
\* draws ms, has the given position on an empty store: just after its
\* commit ("count"), or returned after answering 200 ("done", its summary
\* image drawn from the list top).
FirstRefresh(list, ms, position, top) ==
    LET batch == processCountryData(list, StoreRates, ms).v
        rows == BulkUpsert({}, {}, batch, 1)
        done == position = "done"
        meta == [total_countries |-> Cardinality(rows), last_refreshed_at |-> 1]
    IN  /\ rawIn = <<>>
        /\ ratesIn = [c \in {} |-> Undefined]
        /\ out = NotRun
        /\ countries = rows
        /\ refresh_metadata = IF done THEN meta ELSE InitialMetadata
        /\ clock = 1
        /\ pending = [p \in Requests |-> {}]
        /\ checkedOut = 0
        /\ imageFile = IF done
                       THEN [ t |-> "png", total_countries |-> meta.total_countries,
                              top_countries |-> top,
                              last_refreshed_at |-> meta.last_refreshed_at ]
                       ELSE NoImage
        /\ pc = [p \in Requests |-> IF p = 1 THEN position ELSE "idle"]
        /\ processedCountries = [p \in Requests |-> IF p = 1 /\ ~done THEN batch ELSE <<>>]
        /\ written = [p \in Requests |-> IF p = 1 THEN Len(batch) ELSE 0]
        /\ count = [p \in Requests |-> IF p = 1 /\ ~done THEN Len(batch) ELSE 0]
        /\ totalCountries = [p \in Requests |-> 0]
        /\ metadata = [p \in Requests |-> InitialMetadata]
        /\ topCountries = [p \in Requests |-> <<>>]
        /\ error = [p \in Requests |-> NoError]
        /\ response =
               [p \in Requests |->
                   IF p = 1 /\ done
                   THEN [ status |-> 200,
                          body |-> [ message |-> <<"Countries data refreshed successfully">>,
                                     countries_processed |-> Len(batch),
                                     last_refreshed_at |-> meta.last_refreshed_at ] ]
                   ELSE NoResponse]
        /\ invoked =
               [p \in Requests |->
                   IF p # 1 THEN {}
                   ELSE IF done
                   THEN {"bulkUpsertCountries", "updateRefreshMetadata", "generateSummaryImage"}
                   ELSE {"bulkUpsertCountries"}]
        /\ fetchRejected = [p \in Requests |-> FALSE]
        /\ before = [p \in Requests |->
                        IF p = 1
                        THEN [countries |-> {}, refresh_metadata |-> InitialMetadata,
                              data |-> NoData]
                        ELSE NoSnapshot]
        /\ interleaved = [p \in Requests |-> FALSE]
        /\ deleted = 0
        /\ fetched = [p \in Requests |->
                         IF p = 1 /\ ~done
                         THEN [countries |-> list, rates |-> StoreRates] ELSE NoData]
        /\ lastData = IF done THEN [countries |-> list, rates |-> StoreRates] ELSE NoData
        /\ reply = NoReply
        /\ reads = 0

\* The first refresh has just committed its batch.
SummaryInit ==
    \E list \in StoreResponses :
        \E ms \in [1..Len(list) -> generateRandomMultiplier] :
            FirstRefresh(list, ms, "count", <<>>)

\* The rest of that refresh: metadata, top five, summary image, answer.
SummaryNext ==
    \/ SelectCount(1)
    \/ UpdateMetadata(1)
    \/ ReadMetadata(1)
    \/ ReadTop(1)
    \/ ImageGenerated(1)
    \/ ImageFails(1)

SpecSummary == SummaryInit /\ [][SummaryNext]_vars

\* The first refresh has answered 200.
StoreInit ==
    \E list \in StoreResponses :
        \E ms \in [1..Len(list) -> generateRandomMultiplier] :
            \E top \in getTopCountriesByGDP(
                            BulkUpsert({}, {}, processCountryData(list, StoreRates, ms).v, 1),
                            TopLimit) :
                FirstRefresh(list, ms, "done", top)

\* The names asked for in GET and DELETE /countries/:name: two spellings of
\* a stored name, a name not stored, a blank.
StoreNames == {"nigeria", "NIGERIA", "Peru", " "}

\* The query strings of GET /countries: every sort value, one outside the
\* six and none, with and without a region; and a currency alone.
Queries ==
    [ region   : {Undefined, Str(" Africa")},
      currency : {Undefined},
      sort     : {Undefined} \cup { Str(v) : v \in validSorts \cup {"bogus"} } ]
    \cup { [region |-> Undefined, currency |-> Str("ngn"), sort |-> Undefined] }

StoreNext ==
    \/ \E name \in StoreNames : GetCountry(name)
    \/ \E name \in StoreNames : DeleteCountry(name)
    \/ \E query \in Queries : GetCountries(query)
    \/ GetStatus

SpecStore == StoreInit /\ [][StoreNext]_vars

---------------------------------------------------------------------------
(* Properties of the reconciler *)

\* The input's own shape, read off the raw record (not through the code).
HasFirstCode(country) ==
    /\ country.currencies.t = "array"
    /\ Len(country.currencies.v) > 0
    /\ country.currencies.v[1].t = "object"
    /\ country.currencies.v[1].code.t = "string"

FirstCode(country) == country.currencies.v[1].code

NoCurrencies(country) ==
    \/ country.currencies.t = "undefined"
    \/ country.currencies.t = "array" /\ Len(country.currencies.v) = 0

Resolvable(country, rates) ==
    HasFirstCode(country) /\ FirstCode(country).v \in DOMAIN rates

Returned == out.t = "array"

\* C6: processCountryData raises no error on any input list: whatever
\* fields are missing or malformed, it returns one reconciled record per
\* input record.
C6_NeverThrows ==
    out # NotRun => Returned /\ Len(out.v) = Len(rawIn)

\* C7: a country whose first currency code is in the rate table with rate
\* R > 0 and whose population is P >= 0 gets exchange_rate = R and a
\* non-null estimated_gdp within [P*1000/R, P*2000/R], rounded to two
\* decimals; for P = 0 it is exactly 0.
C7_GdpInRange ==
    Returned =>
        \A i \in 1..Len(rawIn) :
            (Resolvable(rawIn[i], ratesIn) /\ rawIn[i].population.t = "number") =>
                LET P == rawIn[i].population.v
                    R == ratesIn[FirstCode(rawIn[i]).v]
                    r == out.v[i]
                IN  /\ r.exchange_rate = R
                    /\ r.estimated_gdp.t = "number"
                    /\ r.estimated_gdp.v >= RoundDiv(P * 1000 * Hundredths * Hundredths, R.v)
                    /\ r.estimated_gdp.v <= RoundDiv(P * 2000 * Hundredths * Hundredths, R.v)
                    /\ (P = 0 => r.estimated_gdp = Num(0))

\* C8: a country whose currencies are empty or absent gets currency_code
\* null, exchange_rate null and estimated_gdp exactly 0, whatever its
\* population and the rate table.
C8_NoCurrencyZeroGdp ==
    Returned =>
        \A i \in 1..Len(rawIn) :
            NoCurrencies(rawIn[i]) =>
                /\ out.v[i].currency_code = Null
                /\ out.v[i].exchange_rate = Null
                /\ out.v[i].estimated_gdp = Num(0)

\* C8's case: a populated country with an empty currencies list, and one
\* with no currencies field, have been reconciled against a table with NGN.
C8_Witness ==
    /\ Returned
    /\ "NGN" \in DOMAIN ratesIn
    /\ \E i \in 1..Len(rawIn) :
           rawIn[i].currencies = Arr(<<>>) /\ rawIn[i].population = Num(3)
    /\ \E i \in 1..Len(rawIn) :
           rawIn[i].currencies = Undefined /\ rawIn[i].population = Num(3)

\* C9: a country whose first currency code is not in the rate table gets
\* that code, exchange_rate null and estimated_gdp null; and every
\* reconciled record with a currency code has exchange_rate null exactly
\* when estimated_gdp is null.
C9_RateAndGdpNullTogether ==
    Returned =>
        \A i \in 1..Len(rawIn) :
            /\ (HasFirstCode(rawIn[i]) /\ ~Resolvable(rawIn[i], ratesIn)) =>
                   /\ out.v[i].currency_code = FirstCode(rawIn[i])
                   /\ out.v[i].exchange_rate = Null
                   /\ out.v[i].estimated_gdp = Null
            /\ out.v[i].currency_code # Null =>
                   (out.v[i].exchange_rate = Null <=> out.v[i].estimated_gdp = Null)

---------------------------------------------------------------------------
(* Properties of the refresh pipeline *)

\* Request p ran alone: no other request changed the rows or the metadata
\* since p was called.
Alone(p) == ~interleaved[p]

\* C1: when fetchCountries or fetchExchangeRates fails, the refresh stops
\* before any persistence: bulkUpsertCountries and updateRefreshMetadata are
\* not called, nothing is written, and the stored rows and the metadata are
\* what they were when the refresh was called.
C1_FetchFailureWritesNothing ==
    \A p \in Requests :
        fetchRejected[p] =>
            /\ pc[p] = "done"
            /\ invoked[p] = {}
            /\ pending[p] = {}
            /\ Alone(p) => /\ countries = before[p].countries
                           /\ refresh_metadata = before[p].refresh_metadata

\* C1's case: a fetch of a refresh called on a non-empty store has failed.
C1_Witness ==
    \E p \in Requests :
        /\ fetchRejected[p]
        /\ Alone(p)
        /\ before[p].countries # {}

\* C2: when a statement of the bulk upsert fails, at whatever row of
\* whatever batch, the transaction is rolled back and the stored rows are
\* exactly those from before the refresh.
C2_FailedUpsertLeavesRows ==
    \A p \in Requests :
        (pc[p] = "done" /\ error[p] = DatabaseError /\ Alone(p)) =>
            countries = before[p].countries

\* C2's case: the upsert failed after a row of the batch had been written,
\* on a store that already held rows.
C2_Witness ==
    \E p \in Requests :
        /\ pc[p] = "done"
        /\ error[p] = DatabaseError
        /\ Alone(p)
        /\ written[p] >= 1
        /\ before[p].countries # {}

\* The columns an upsert sets are those of the reconciled country.
Reflects(row, country) ==
    /\ row.capital = country.capital
    /\ row.region = country.region
    /\ row.population = country.population
    /\ row.currency_code = country.currency_code
    /\ row.exchange_rate = country.exchange_rate
    /\ row.estimated_gdp = country.estimated_gdp
    /\ row.flag_url = country.flag_url

\* rows is base with every write of the batch applied: each country of the
\* batch has its row, holding the columns of the last country of the batch
\* with that name, and every other row is as in base.
BatchApplied(rows, base, batch) ==
    LET batchKeys == { Key(batch[i]) : i \in 1..Len(batch) }
        last(k) == batch[CHOOSE i \in 1..Len(batch) :
                            /\ Key(batch[i]) = k
                            /\ \A j \in (i + 1)..Len(batch) : Key(batch[j]) # k]
    IN  /\ { r \in rows : Key(r) \notin batchKeys } =
           { r \in base : Key(r) \notin batchKeys }
        /\ \A k \in batchKeys :
               \E r \in rows : Key(r) = k /\ Reflects(r, last(k))
        /\ Cardinality(rows) = Cardinality(Keys(rows))

\* C3: what a SELECT sent through the pool reads (the committed rows) while
\* a bulk upsert is in progress holds none of that batch's writes, and once
\* the upsert has committed holds all of them: never part of a batch.
C3_ReadsSeeNoneOrAll ==
    \A p \in Requests :
        Alone(p) =>
            /\ pc[p] = "rows" => countries = before[p].countries
            /\ pc[p] \in {"count", "update", "getmeta", "gettop", "image"} =>
                   BatchApplied(countries, before[p].countries, processedCountries[p])

\* C3's case: one refresh has written one row of a batch of two that
\* changes the store, while another refresh is about to read the rows
\* (its COUNT(*) or its top-5 query).
C3_Witness ==
    \E p, q \in Requests :
        /\ p # q
        /\ pc[p] = "rows"
        /\ written[p] = 1
        /\ Len(processedCountries[p]) = 2
        /\ Alone(p)
        /\ TxView(countries, pending[p]) # countries
        /\ pc[q] \in {"count", "gettop"}

\* C4: when generateSummaryImage fails, after the upsert has committed and
\* the metadata has been updated, the refresh still answers with the
\* success body.
C4_ImageFailureStillSuccess ==
    \A p \in Requests :
        (pc[p] = "done" /\ error[p] = ImageError) =>
            /\ response[p].status = 200
            /\ DOMAIN response[p].body =
                   {"message", "countries_processed", "last_refreshed_at"}

\* C5: every failure of an external fetch, a failed request or a timeout,
\* is answered with 503 and "External data source unavailable".
C5_FetchFailureIs503 ==
    \A p \in Requests :
        (pc[p] = "done" /\ fetchRejected[p]) =>
            /\ response[p].status = 503
            /\ response[p].body.error = <<"External data source unavailable">>

\* C10: after a refresh that ran alone has updated the metadata,
\* total_countries is the number of rows in the store, whatever the size
\* of its batch.
C10_TotalIsRowCount ==
    \A p \in Requests :
        ( /\ pc[p] \in {"getmeta", "gettop", "image", "done"}
          /\ "updateRefreshMetadata" \in invoked[p]
          /\ Alone(p) ) =>
            refresh_metadata.total_countries = Cardinality(countries)

\* C10's case: a refresh has answered 200 for a batch smaller than the
\* store, which holds rows of an earlier refresh.
C10_Witness ==
    \E p \in Requests :
        /\ pc[p] = "done"
        /\ response[p].status = 200
        /\ Alone(p)
        /\ response[p].body.countries_processed < Cardinality(countries)

---------------------------------------------------------------------------
(* Properties of the store under refreshes and deletes *)

\* Two names are equal ignoring case when they fold to the same spelling.
UpperFold(s) == IF s \in {"Nigeria", "NIGERIA", "nigeria"} THEN "NIGERIA" ELSE s

SameIgnoringCase(a, b) == UpperFold(a) = UpperFold(b)

\* The positions of a refresh after its bulk upsert has committed.
AfterCommit == {"count", "update", "getmeta", "gettop", "image"}

\* The batch holds a country of that name, ignoring case.
InBatch(batch, name) ==
    \E i \in 1..Len(batch) : SameIgnoringCase(batch[i].name.v, name)

\* The last country of the batch with that name, ignoring case.
LastInBatch(batch, name) ==
    batch[CHOOSE i \in 1..Len(batch) :
              /\ SameIgnoringCase(batch[i].name.v, name)
              /\ \A j \in (i + 1)..Len(batch) : ~SameIgnoringCase(batch[j].name.v, name)]

StoredNames(rows) == { r.name : r \in rows }

\* C11: a step that is not a DELETE request removes no stored name, and
\* the only rows it changes are rows whose name, ignoring case, is in the
\* batch of the refresh that commits in that step: every other row stays
\* stored with every field unchanged.
C11_RefreshNeverRemoves ==
    [][ deleted' = deleted =>
          /\ StoredNames(countries) \subseteq StoredNames(countries')
          /\ \A r \in countries :
                 \/ r \in countries'
                 \/ \E p \in Requests :
                        /\ pc[p] = "rows"
                        /\ pc'[p] = "count"
                        /\ InBatch(processedCountries[p], r.name.v) ]_vars

\* C11's case: a refresh has committed a batch that lacks a name stored
\* before it, and that row, last refreshed earlier, is still stored as it was.
C11_Witness ==
    \E p \in Requests :
        /\ pc[p] \in AfterCommit
        /\ Alone(p)
        /\ processedCountries[p] # <<>>
        /\ \E r \in before[p].countries :
               /\ ~InBatch(processedCountries[p], r.name.v)
               /\ r \in countries
               /\ r.last_refreshed_at < clock

\* C12: the metadata row changes only in the UPDATE of a refresh whose
\* fetches succeeded and whose bulk upsert has committed, and it then
\* holds the count that refresh took; a DELETE request, a refresh that
\* failed at fetch or at persistence, and getRefreshMetadata leave it as it is.
C12_MetadataOnlyAfterCommit ==
    [][ refresh_metadata' # refresh_metadata =>
          \E p \in Requests :
              /\ pc[p] = "update"
              /\ pc'[p] = "getmeta"
              /\ ~fetchRejected[p]
              /\ error[p] = NoError
              /\ written[p] = Len(processedCountries[p])
              /\ count[p] = Len(processedCountries[p])
              /\ pending[p] = {}
              /\ refresh_metadata'.total_countries = totalCountries[p] ]_vars

\* C12's case: after a successful refresh a DELETE has removed a row, and
\* total_countries still holds the count of that refresh, one more than
\* the rows stored.
C12_Witness ==
    /\ reply.handler = "deleteCountry"
    /\ reply.status = 204
    /\ \A p \in Requests : pc[p] \in {"idle", "done"}
    /\ \E p \in Requests : response[p].status = 200
    /\ refresh_metadata.total_countries = Cardinality(countries) + 1

\* C13: no two stored rows have names equal ignoring case; and a batch
\* country whose name equals a stored row's ignoring case has updated that
\* row: name and created_at kept, the other columns those of the batch
\* country, last_refreshed_at later than it was.
C13_NamesUniqueIgnoringCase ==
    /\ \A r1, r2 \in countries : SameIgnoringCase(r1.name.v, r2.name.v) => r1 = r2
    /\ \A p \in Requests :
           (Alone(p) /\ pc[p] \in AfterCommit) =>
               \A old \in before[p].countries :
                   InBatch(processedCountries[p], old.name.v) =>
                       \E r \in countries :
                           /\ r.name = old.name
                           /\ r.created_at = old.created_at
                           /\ r.last_refreshed_at > old.last_refreshed_at
                           /\ Reflects(r, LastInBatch(processedCountries[p], old.name.v))

\* C13's case: a refresh has committed a batch that names a stored country
\* in another spelling.
C13_Witness ==
    \E p \in Requests :
        /\ Alone(p)
        /\ pc[p] \in AfterCommit
        /\ \E old \in before[p].countries :
               /\ InBatch(processedCountries[p], old.name.v)
               /\ LastInBatch(processedCountries[p], old.name.v).name # old.name

\* Every country of the list has a population above 0.
AllPopulated(list) ==
    \A i \in 1..Len(list) :
        list[i].population.t = "number" /\ list[i].population.v > 0

\* Which of currency_code, exchange_rate and estimated_gdp are null.
NullPattern(r) == <<r.currency_code = Null, r.exchange_rate = Null, r.estimated_gdp = Null>>

\* C18: a successful refresh that follows a successful refresh of the same
\* external data, every population above 0, leaves the stored names as the
\* first left them, one row each, and every row with the same columns null.
C18_SecondRefreshSameNames ==
    \A p \in Requests :
        ( /\ Alone(p)
          /\ pc[p] \in AfterCommit
          /\ fetched[p] # NoData
          /\ before[p].data = fetched[p]
          /\ AllPopulated(fetched[p].countries) ) =>
            /\ StoredNames(countries) = StoredNames(before[p].countries)
            /\ Cardinality(countries) = Cardinality(before[p].countries)
            /\ \A r \in countries :
                   \E o \in before[p].countries :
                       o.name = r.name /\ NullPattern(o) = NullPattern(r)

\* C18's case: the second of two such refreshes has committed, with an
\* estimated GDP that differs from the first's.
C18_Witness ==
    \E p \in Requests :
        /\ Alone(p)
        /\ pc[p] \in AfterCommit
        /\ fetched[p] # NoData
        /\ before[p].data = fetched[p]
        /\ AllPopulated(fetched[p].countries)
        /\ \E r \in countries, o \in before[p].countries :
               /\ o.name = r.name
               /\ r.estimated_gdp # Null
               /\ o.estimated_gdp # Null
               /\ r.estimated_gdp # o.estimated_gdp

\* C20: the connections checked out of the pool are those of the refreshes
\* inside bulkUpsertCountries: each is released once, whether the upsert
\* commits or fails, and none stays checked out afterwards.
C20_ConnectionsReleased ==
    checkedOut = Cardinality({ p \in Requests : pc[p] = "rows" })

\* C20's case: one refresh has failed inside the transaction after writing
\* a row, another has committed, and no connection is checked out.
C20_Witness ==
    \E p, q \in Requests :
        /\ pc[p] = "done"
        /\ error[p] = DatabaseError
        /\ written[p] >= 1
        /\ pc[q] = "done"
        /\ response[q].status = 200
        /\ checkedOut = 0

---------------------------------------------------------------------------
(* Properties of the GET and DELETE requests *)

\* The stored rows whose name equals the argument ignoring case.
Matching(rows, name) == { r \in rows : SameIgnoringCase(r.name.v, name) }

\* The response body shows the stored row, column by column.
ShowsRecord(body, r) ==
    /\ body.name = r.name
    /\ body.capital = r.capital
    /\ body.region = r.region
    /\ body.population = r.population
    /\ body.currency_code = r.currency_code
    /\ body.exchange_rate = r.exchange_rate
    /\ body.estimated_gdp = r.estimated_gdp
    /\ body.flag_url = r.flag_url
    /\ body.last_refreshed_at = r.last_refreshed_at

NotFound == [error |-> <<"Country not found">>]

\* C14: getCountryByName called with an argument equal, ignoring case, to
\* a stored row's name returns that row and GET /countries/:name answers
\* 200 with it; called with an argument that matches no stored name it
\* returns null and the request is answered 404 "Country not found".
C14_GetByNameIgnoresCase ==
    [][ (reads' # reads /\ reply'.handler = "getCountry" /\ reply'.called) =>
          LET matching == Matching(countries, reply'.arg)
          IN  /\ matching # {} =>
                     /\ reply'.status = 200
                     /\ reply'.body = reply'.result
                     /\ \A r \in matching : ShowsRecord(reply'.result, r)
              /\ matching = {} =>
                     /\ reply'.result = Null
                     /\ reply'.status = 404
                     /\ reply'.body = NotFound ]_vars

\* C14's case: GET /countries/NIGERIA has been answered with the row
\* stored as "Nigeria".
C14_Witness ==
    /\ reply.handler = "getCountry"
    /\ reply.arg = "NIGERIA"
    /\ reply.status = 200
    /\ reply.body.name = Str("Nigeria")
    /\ Cardinality(countries) > 1

\* C15: deleteCountryByName called with a name that matches no stored row
\* ignoring case returns false, leaves the rows as they are and the
\* request is answered 404; called with a name that matches a stored row
\* it returns true, the request is answered 204, that row and no other is
\* gone, and getCountryByName of the name then returns null.
C15_DeleteByName ==
    [][ (deleted' # deleted /\ reply'.handler = "deleteCountry" /\ reply'.called) =>
          LET matching == Matching(countries, reply'.arg)
          IN  /\ matching = {} =>
                     /\ reply'.result = FALSE
                     /\ countries' = countries
                     /\ reply'.status = 404
                     /\ reply'.body = NotFound
              /\ matching # {} =>
                     /\ reply'.result = TRUE
                     /\ reply'.status = 204
                     /\ Cardinality(matching) = 1
                     /\ countries' = countries \ matching
                     /\ getCountryByName(countries', reply'.arg) = {Null} ]_vars

\* C15's case: DELETE /countries/nigeria has removed the row stored as
\* "Nigeria" from a store that holds other rows.
C15_Witness ==
    /\ reply.handler = "deleteCountry"
    /\ reply.arg = "nigeria"
    /\ reply.status = 204
    /\ Matching(countries, "Nigeria") = {}
    /\ countries # {}

\* The list is in ascending order of name.
AscendingByName(list) ==
    \A i \in 1..(Len(list) - 1) : SortKey(list[i], "name") < SortKey(list[i + 1], "name")

\* C16: GET /countries with a sort value outside the six, or with none, is
\* answered 200 with the list that sort=name_asc gives for the same
\* filters, in ascending order of name.
C16_UnknownSortIsNameAsc ==
    [][ ( /\ reads' # reads
          /\ reply'.handler = "getCountries"
          /\ (reply'.arg.sort = Undefined \/ reply'.arg.sort.v \notin validSorts) ) =>
          /\ reply'.status = 200
          /\ reply'.body \in CountriesFor(countries, [reply'.arg EXCEPT !.sort = Str("name_asc")])
          /\ AscendingByName(reply'.body) ]_vars

\* C16's case: GET /countries?sort=bogus has been answered with a list of
\* at least three countries.
C16_Witness ==
    /\ reply.handler = "getCountries"
    /\ reply.arg.sort = Str("bogus")
    /\ reply.status = 200
    /\ Len(reply.body) >= 3

\* C17: the list of sort=gdp_desc has the rows of non-null estimated_gdp
\* first, in non-increasing order of it, and the rows of null
\* estimated_gdp after them; without filters it has every stored row.
C17_GdpDescNullsLast ==
    [][ ( /\ reads' # reads
          /\ reply'.handler = "getCountries"
          /\ reply'.arg.sort = Str("gdp_desc") ) =>
          LET list == reply'.body
          IN  /\ \A i, j \in 1..Len(list) :
                     i < j =>
                         /\ list[i].estimated_gdp = Null => list[j].estimated_gdp = Null
                         /\ (list[i].estimated_gdp # Null /\ list[j].estimated_gdp # Null) =>
                                list[i].estimated_gdp.v >= list[j].estimated_gdp.v
              /\ (reply'.arg.region = Undefined /\ reply'.arg.currency = Undefined) =>
                     /\ Len(list) = Cardinality(countries)
                     /\ \A r \in countries : \E i \in 1..Len(list) : ShowsRecord(list[i], r) ]_vars

\* C17's case: a sort=gdp_desc list of eight countries, with two different
\* GDPs, a GDP of 0 and a null GDP in it.
C17_Witness ==
    /\ reply.handler = "getCountries"
    /\ reply.arg.sort = Str("gdp_desc")
    /\ Len(reply.body) = 8
    /\ reply.body[1].estimated_gdp # Null
    /\ reply.body[1].estimated_gdp # reply.body[2].estimated_gdp
    /\ \E i \in 1..8 : reply.body[i].estimated_gdp = Num(0)
    /\ reply.body[8].estimated_gdp = Null

---------------------------------------------------------------------------
(* Properties of the summary *)

\* The list is a top five by estimated_gdp of the rows.
TopFive(top, rows) ==
    /\ Len(top) <= 5
    /\ \A i \in 1..Len(top) :
           /\ top[i].estimated_gdp # Null
           /\ \E r \in rows : r.name = top[i].name /\ r.estimated_gdp = top[i].estimated_gdp
    /\ \A i \in 1..(Len(top) - 1) : top[i].estimated_gdp.v >= top[i + 1].estimated_gdp.v
    /\ \A r \in rows :
           (r.estimated_gdp # Null /\ \A i \in 1..Len(top) : top[i].name # r.name) =>
               \A i \in 1..Len(top) : r.estimated_gdp.v <= top[i].estimated_gdp.v

\* C19: the list a refresh hands to generateSummaryImage has at most 5
\* entries, none of null estimated_gdp, in non-increasing order of it, and
\* no stored row outside it has a greater non-null estimated_gdp than a
\* listed one; the metadata handed over with it was read after this
\* refresh's updateRefreshMetadata and is what that call wrote.
C19_TopFiveForSummary ==
    /\ \A p \in Requests :
           pc[p] = "image" =>
               /\ TopFive(topCountries[p], countries)
               /\ "updateRefreshMetadata" \in invoked[p]
               /\ metadata[p] = [total_countries |-> totalCountries[p],
                                 last_refreshed_at |-> clock]
    /\ imageFile # NoImage =>
           /\ TopFive(imageFile.top_countries, countries)
           /\ imageFile.total_countries = refresh_metadata.total_countries
           /\ imageFile.last_refreshed_at = refresh_metadata.last_refreshed_at

\* C19's case: the summary image has been drawn from a list of five while
\* seven stored rows have a GDP and one has none.
C19_Witness ==
    /\ imageFile # NoImage
    /\ Len(imageFile.top_countries) = 5
    /\ Cardinality({ r \in countries : r.estimated_gdp # Null }) = 7
    /\ \E r \in countries : r.estimated_gdp = Null

===========================================================================
